---- MODULE Spec2Model ----
(***************************************************************************)
(* mealie-mcp: the tool layer (server.py) over the backend client          *)
(* (client.py).  A tool invocation is a coroutine: between two awaits its  *)
(* code runs without interruption, so one action of the model is one       *)
(* backend call (the await) together with the synchronous code that runs   *)
(* on its response, up to the next await or the return.                    *)
(***************************************************************************)
EXTENDS Integers, Sequences, FiniteSets, TLC

VARIABLES
    inv,        \* inv[i]: the i-th tool invocation (tool, arguments, locals, position, result)
    recipes,    \* backend: slug -> stored recipe (a partial function)
    units,      \* backend: the unit catalog, a set of [id, name]
    foods,      \* backend: the food catalog, a set of [id, name]
    mealplans,  \* backend: the meal-plan entries
    nextId      \* backend: the next server-assigned id

vars == <<inv, recipes, units, foods, mealplans, nextId>>
backend == <<recipes, units, foods, mealplans, nextId>>

----------------------------------------------------------------------------
(* Bounds *)

NumInv == 2      \* invocation slots (concurrent callers)
MaxIngr == 2     \* longest ingredient list a caller submits
MaxInstr == 1    \* longest instruction list a caller submits
MaxDay == 2      \* the days (numbered from 1) on which a tool may be invoked

Invocations == 1..NumInv

----------------------------------------------------------------------------
(* Python values, as far as the tool layer inspects them *)

PyNone == [type |-> "NoneType"]
PyStr(s) == [type |-> "str", val |-> s]
PyInt(n) == [type |-> "int", val |-> n]
PyList(items) == [type |-> "list", items |-> items]
\* a dict item: note / text are "" when the key is missing
PyDict(note, text) == [type |-> "dict", note |-> note, text |-> text]

\* a non-empty string holding the ISO form of day d (days are numbered)
PyDate(d) == [type |-> "isodate", val |-> d]

\* a non-empty string naming a recipe slug
PySlug(s) == [type |-> "slug", val |-> s]

\* Python truthiness (`if x:`)
Truthy(v) ==
    CASE v.type = "NoneType" -> FALSE
      [] v.type = "isodate" -> TRUE
      [] v.type = "slug" -> TRUE
      [] v.type = "str" -> v.val # ""
      [] v.type = "int" -> v.val # 0
      [] v.type = "list" -> v.items # <<>>
      [] v.type = "dict" -> (v.note # "" \/ v.text # "")

EmptyFn == [x \in {} |-> TRUE]

\* the result of a synchronous helper: a value or a raised exception
Ok(v) == [ok |-> TRUE, val |-> v]
Raised(e) == [ok |-> FALSE, exc |-> e]

HTTPStatusError(status) == [type |-> "HTTPStatusError", status |-> status, msg |-> <<>>]
TimeoutException == [type |-> "TimeoutException", status |-> 0, msg |-> <<>>]
ValueError(msg) == [type |-> "ValueError", status |-> 0, msg |-> msg]
BinasciiError == [type |-> "binascii.Error", status |-> 0, msg |-> <<"Incorrect padding">>]

\* binascii.Error derives from ValueError, json.JSONDecodeError too
IsValueError(e) == e.type \in {"ValueError", "binascii.Error"}

----------------------------------------------------------------------------
(* The sets the callers' arguments are drawn from *)

FLOUR == "2 cups flour"
SALT == "1 tsp salt"
TASTE == "to taste"

IngredientItems ==
    { PyStr(FLOUR), PyStr(SALT),
      PyDict(TASTE, SALT),      \* both keys: note wins
      PyDict("", FLOUR),        \* only text
      PyDict("", ""),           \* neither key
      PyInt(5) }

InstructionItems == { PyStr("Mix"), PyDict("", "Bake"), PyInt(7) }

RECURSIVE SeqsUpTo(_, _)
SeqsUpTo(S, n) ==
    IF n = 0 THEN { <<>> }
    ELSE LET shorter == SeqsUpTo(S, n - 1)
         IN  shorter \cup { Append(s, x) : s \in { t \in shorter : Len(t) = n - 1 }, x \in S }

\* JSON texts a caller may pass where a list is expected
JSON_LIST == "[\"2 cups flour\"]"
JSON_OBJECT == "{\"a\": 1}"
JSON_BAD == "2 cups flour"

IngredientArgs ==
    { PyList(s) : s \in SeqsUpTo(IngredientItems, MaxIngr) }
        \cup { PyStr(JSON_LIST), PyStr(JSON_OBJECT), PyStr(JSON_BAD), PyInt(5) }

InstructionArgs ==
    { PyList(s) : s \in SeqsUpTo(InstructionItems, MaxInstr) } \cup { PyInt(5) }

\* (prep_time, cook_time, servings)
TimingArgs ==
    { <<PyNone, PyNone, PyNone>>,
      <<PyStr("15 minutes"), PyStr("30 minutes"), PyStr("4 servings")>>,
      <<PyStr(""), PyNone, PyNone>> }

\* `timedelta(days=7)` in get_meal_plans
WEEK == 7

\* date.today() at the moment of a call
Days == 1..MaxDay

\* the dates a caller may name: some lie more than a week after any today
DateArgs == { PyNone, PyStr("") } \cup { PyDate(d) : d \in {1, MaxDay + WEEK + 1} }

\* str() of a dict that has neither a note nor a text
STR_OF_DICT == "{}"

\* json.loads on the texts above
json_loads(s) ==
    CASE s = JSON_LIST -> Ok(PyList(<<PyStr(FLOUR)>>))
      [] s = JSON_OBJECT -> Ok(PyDict("", ""))
      [] OTHER -> Raised(ValueError(<<"Expecting value">>))

----------------------------------------------------------------------------
(* server.py: the synchronous helpers *)

\* as ensure_list, but anything that is no list is taken as a one-item list
ensure_list_lenient(value) ==
    IF value.type = "list" THEN Ok(value.items)
    ELSE Ok(<<PyStr(STR_OF_DICT)>>)

\* _ensure_list: a list, or a string that decodes to a list
ensure_list(value) ==
    IF value.type = "list" THEN Ok(value.items)
    ELSE IF value.type = "str" THEN
        LET parsed == json_loads(value.val)
        IN  IF ~parsed.ok THEN parsed
            ELSE IF parsed.val.type # "list"
                 THEN Raised(ValueError(<<"Expected array, got", parsed.val.type>>))
                 ELSE Ok(parsed.val.items)
    ELSE Raised(ValueError(<<"Expected array, got", value.type>>))

\* _parse_instruction: a string, or an object with a text field
parse_instruction(inst) ==
    IF inst.type = "str" THEN Ok([text |-> inst.val, ingredientReferences |-> <<>>])
    ELSE IF inst.type = "dict" /\ inst.text # ""
         THEN Ok([text |-> inst.text, ingredientReferences |-> <<>>])
    ELSE Raised(ValueError(<<"Instruction must be a string or object with 'text' field, got", inst.type>>))

\* [_parse_instruction(inst) for inst in instruction_list]: the first malformed
\* instruction raises
parse_instructions(instruction_list) ==
    LET bad == { k \in 1..Len(instruction_list) : ~parse_instruction(instruction_list[k]).ok }
    IN  IF bad # {}
        THEN parse_instruction(instruction_list[CHOOSE k \in bad : \A j \in bad : k <= j])
        ELSE Ok([k \in 1..Len(instruction_list) |-> parse_instruction(instruction_list[k]).val])

\* as coerce_ingredient, but without the `or str(ing)`: an object that has
\* neither a note nor a text stays an object
coerce_ingredient_without_str(ing) ==
    IF ing.type = "dict" /\ (ing.note # "" \/ ing.text # "")
    THEN PyStr(IF ing.note # "" THEN ing.note ELSE ing.text)
    ELSE ing

\* `if isinstance(ing, dict): ing = ing.get("note") or ing.get("text") or str(ing)`
coerce_ingredient(ing) ==
    IF ing.type = "dict"
    THEN PyStr(IF ing.note # "" THEN ing.note
               ELSE IF ing.text # "" THEN ing.text
               ELSE STR_OF_DICT)
    ELSE ing

----------------------------------------------------------------------------
(* The backend, as the client's calls see it *)

NoneRef == [present |-> FALSE, id |-> 0, name |-> ""]
Ref(id, name) == [present |-> TRUE, id |-> id, name |-> name]

\* the backend's ingredient parser: text -> quantity, unit name, food name, note
\* ("" = no unit / no food recognised)
Parser(text) ==
    CASE text = FLOUR -> [quantity |-> 2, unit |-> "cup", food |-> "flour", note |-> ""]
      [] text = SALT -> [quantity |-> 1, unit |-> "tsp", food |-> "salt", note |-> ""]
      [] OTHER -> [quantity |-> 0, unit |-> "", food |-> "", note |-> text]

\* the id the catalog holds for a name, 0 when it holds none
LookupId(catalog, name) ==
    LET hits == { e.id : e \in { c \in catalog : c.name = name } }
    IN  IF hits = {} THEN 0 ELSE CHOOSE x \in hits : \A y \in hits : x <= y

CatalogRef(catalog, name) ==
    IF name = "" THEN NoneRef ELSE Ref(LookupId(catalog, name), name)

\* POST /api/parser/ingredient: the "ingredient" object of the response
parse_ingredient_response(text) ==
    LET p == Parser(text)
    IN  [quantity |-> p.quantity,
         unit |-> CatalogRef(units, p.unit),
         food |-> CatalogRef(foods, p.food),
         note |-> p.note]

\* a slug is <<base, n>>: "chili" is <<"chili", 0>>, "chili-1" is <<"chili", 1>>
SlugOf(name) ==
    CASE name = "Chili" -> "chili"
      [] name = "Stew" -> "stew"
      [] OTHER -> "recipe"

\* the slug the backend gives a new recipe: the name's slug, with the first
\* suffix that is free
NewSlug(name) ==
    LET taken == { s[2] : s \in { t \in DOMAIN recipes : t[1] = SlugOf(name) } }
        n == CHOOSE k \in 0..Cardinality(taken) : k \notin taken /\ \A j \in 0..(k - 1) : j \in taken
    IN  <<SlugOf(name), n>>

NoSlug == <<"", 0>>

StubRecipe(id, name, slug) ==
    [id |-> id, userId |-> "user-1", householdId |-> "household-1", groupId |-> "group-1",
     name |-> name, slug |-> slug, description |-> "",
     recipeIngredient |-> <<>>, recipeInstructions |-> <<>>]

\* the statuses a call may end with. `natural` is what the request earns from a
\* healthy backend; a request that would succeed may also meet a server error
\* (500) or no answer within the timeout (0)
Statuses(natural) == IF natural >= 400 THEN { natural, 0 } ELSE { natural, 500, 0 }

\* as request, but only a 4xx status raises
request_only_4xx(status) ==
    IF status = 0 THEN Raised(TimeoutException)
    ELSE IF status >= 400 /\ status < 500 THEN Raised(HTTPStatusError(status))
    ELSE Ok(status)

\* client.py _request: the outcome the caller sees for a status
request(status) ==
    IF status = 0 THEN Raised(TimeoutException)
    ELSE IF status >= 400 THEN Raised(HTTPStatusError(status))
    ELSE Ok(status)

\* client.py _request_multipart: response.raise_for_status()
request_multipart(status) ==
    IF status = 0 THEN Raised(TimeoutException)
    ELSE IF status >= 400 THEN Raised(HTTPStatusError(status))
    ELSE Ok(status)

----------------------------------------------------------------------------
(* A tool invocation *)

NoParsed == [quantity |-> 0, unit |-> NoneRef, food |-> NoneRef, note |-> ""]
NoResult == [kind |-> "none", error |-> <<>>, status |-> 0, hint |-> FALSE, data |-> EmptyFn]

\* an invocation that has not been made yet, with every local at its default
Idle ==
    [tool |-> "none", args |-> EmptyFn, pc |-> "idle",
     slug |-> NoSlug, recipe |-> EmptyFn,
     todo |-> <<>>, text |-> "", parsed |-> NoParsed, unit |-> NoneRef,
     parsed_ingredients |-> <<>>, instruction_list |-> <<>>,
     update_data |-> EmptyFn, recipe_id |-> 0, params |-> EmptyFn, filename |-> "",
     calls |-> <<>>, result |-> NoResult]

\* the backend calls of an invocation, in the order they were issued
Call(op, slug, text, status) == [op |-> op, slug |-> slug, text |-> text, status |-> status]
Called(st, op, slug, text, status) ==
    [st EXCEPT !.calls = Append(@, Call(op, slug, text, status))]

\* `return json.dumps({"success": True, ...})`
Success(data) == [kind |-> "success", error |-> <<>>, status |-> 0, hint |-> FALSE, data |-> data]
\* `return json.dumps({"error": ..., "hint": ...})`
ErrorEnvelope(error, status, hint) ==
    [kind |-> "error", error |-> error, status |-> status, hint |-> hint, data |-> EmptyFn]
\* an exception that leaves the tool function
Fault(exc) ==
    [kind |-> "fault", error |-> <<exc.type>>, status |-> exc.status, hint |-> FALSE, data |-> EmptyFn]

Return(st, result) == [st EXCEPT !.pc = "done", !.result = result]

\* as create_recipe_except, but a stub that was created is deleted again
create_recipe_except_undoing(st, exc) ==
    IF st.slug # NoSlug THEN [st EXCEPT !.pc = "delete_recipe"]
    ELSE IF exc.type = "HTTPStatusError"
    THEN Return(st, ErrorEnvelope(<<"API error">>, exc.status, TRUE))
    ELSE IF IsValueError(exc)
    THEN Return(st, ErrorEnvelope(exc.msg, 0, TRUE))
    ELSE Return(st, ErrorEnvelope(<<"Unexpected error">>, 0, FALSE))

\* create_recipe's except clauses
create_recipe_except(st, exc) ==
    IF exc.type = "HTTPStatusError"
    THEN Return(st, ErrorEnvelope(<<"API error">>, exc.status, TRUE))
    ELSE IF IsValueError(exc)
    THEN Return(st, ErrorEnvelope(exc.msg, 0, TRUE))
    ELSE Return(st, ErrorEnvelope(<<"Unexpected error">>, 0, FALSE))

\* update_recipe's except clauses
update_recipe_except(st, exc) ==
    IF exc.type = "HTTPStatusError"
    THEN Return(st, ErrorEnvelope(<<"API error">>, exc.status, TRUE))
    ELSE IF IsValueError(exc)
    THEN Return(st, ErrorEnvelope(exc.msg, 0, TRUE))
    ELSE Return(st, ErrorEnvelope(<<"Unexpected error">>, 0, FALSE))

\* the other tools have no try block: the exception leaves the tool
unhandled(st, exc) == [st EXCEPT !.pc = "fault", !.result = Fault(exc)]

\* an exception raised in the body of a tool
Raise(st, exc) ==
    CASE st.tool = "create_recipe" -> create_recipe_except(st, exc)
      [] st.tool = "update_recipe" -> update_recipe_except(st, exc)
      [] OTHER -> unhandled(st, exc)

----------------------------------------------------------------------------
(* create_recipe and update_recipe: the code between the awaits *)

\* `if prep_time: ...`, `if cook_time: ...`, `if servings: ...`
timing_fields(args) ==
    (IF Truthy(args.prep_time) THEN "prepTime" :> args.prep_time.val ELSE EmptyFn)
        @@ (IF Truthy(args.cook_time) THEN "performTime" :> args.cook_time.val ELSE EmptyFn)
        @@ (IF Truthy(args.servings) THEN "recipeYield" :> args.servings.val ELSE EmptyFn)

\* create_recipe, after the loop: update_data, then the await of update_recipe
cr_build(st) ==
    LET instructions == parse_instructions(st.instruction_list)
    IN  IF ~instructions.ok THEN Raise(st, instructions.exc)
        ELSE [st EXCEPT
                !.update_data =
                    [id |-> st.recipe.id,
                     userId |-> st.recipe.userId,
                     householdId |-> st.recipe.householdId,
                     groupId |-> st.recipe.groupId,
                     name |-> st.args.name.val,
                     slug |-> st.slug,
                     description |-> st.args.description.val,
                     recipeIngredient |-> st.parsed_ingredients,
                     recipeInstructions |-> instructions.val]
                    @@ timing_fields(st.args),
                !.pc = "cr_update"]

\* as cr_loop, but every item still to come is validated before the next parse
cr_loop_validating_first(st) ==
    LET bad == { k \in 1..Len(st.todo) : coerce_ingredient(st.todo[k]).type # "str" }
        first == CHOOSE k \in bad : \A j \in bad : k <= j
    IN  IF bad # {}
        THEN Return(st, ErrorEnvelope(<<"Ingredient must be a string, got",
                                        coerce_ingredient(st.todo[first]).type>>, 0, TRUE))
        ELSE IF st.todo = <<>> THEN cr_build(st)
        ELSE [st EXCEPT !.pc = "parse_ingredient", !.text = coerce_ingredient(Head(st.todo)).val]

\* create_recipe's `for ing in ingredient_list`: the next item, up to the await
\* of its parse
cr_loop(st) ==
    IF st.todo = <<>> THEN cr_build(st)
    ELSE LET ing == coerce_ingredient(Head(st.todo))
         IN  IF ing.type # "str"
             THEN Return(st, ErrorEnvelope(<<"Ingredient must be a string, got", ing.type>>, 0, TRUE))
             ELSE [st EXCEPT !.pc = "parse_ingredient", !.text = ing.val]

\* update_recipe, after `if ingredients:`: instructions, timing, then the await
\* of update_recipe
ur_finish(st) ==
    LET given == Truthy(st.args.instructions)
        instruction_list == IF given THEN ensure_list(st.args.instructions) ELSE Ok(<<>>)
        instructions == IF instruction_list.ok
                        THEN parse_instructions(instruction_list.val)
                        ELSE instruction_list
    IN  IF ~instructions.ok THEN Raise(st, instructions.exc)
        ELSE [st EXCEPT
                !.update_data =
                    (IF given THEN "recipeInstructions" :> instructions.val ELSE EmptyFn)
                        @@ timing_fields(st.args) @@ @,
                !.pc = "ur_update"]

\* update_recipe's `for ing in ingredient_list`
ur_loop(st) ==
    IF st.todo = <<>>
    THEN ur_finish([st EXCEPT !.update_data = ("recipeIngredient" :> st.parsed_ingredients) @@ @])
    ELSE LET ing == coerce_ingredient(Head(st.todo))
         IN  IF ing.type # "str"
             THEN Return(st, ErrorEnvelope(<<"Ingredient must be a string, got", ing.type>>, 0, TRUE))
             ELSE [st EXCEPT !.pc = "parse_ingredient", !.text = ing.val]

\* as prepared, but the new ingredient is put in front of the list
prepared_in_front(st, food) ==
    LET ingredient == [quantity |-> st.parsed.quantity,
                       unit |-> st.unit,
                       food |-> food,
                       note |-> st.parsed.note,
                       display |-> st.text]
        next == [st EXCEPT !.parsed_ingredients = <<ingredient>> \o @, !.todo = Tail(@)]
    IN  IF st.tool = "create_recipe" THEN cr_loop(next) ELSE ur_loop(next)

\* _parse_and_prepare_ingredient's return value, appended to parsed_ingredients
prepared(st, food) ==
    LET ingredient == [quantity |-> st.parsed.quantity,
                       unit |-> st.unit,
                       food |-> food,
                       note |-> st.parsed.note,
                       display |-> st.text]
        next == [st EXCEPT !.parsed_ingredients = Append(@, ingredient), !.todo = Tail(@)]
    IN  IF st.tool = "create_recipe" THEN cr_loop(next) ELSE ur_loop(next)

\* _ensure_food, up to its await of create_food
ensure_food(st) ==
    LET food_data == st.parsed.food
    IN  IF ~food_data.present THEN prepared(st, NoneRef)
        ELSE IF food_data.id # 0 THEN prepared(st, Ref(food_data.id, food_data.name))
        ELSE [st EXCEPT !.pc = "create_food"]

\* as ensure_unit, but a unit is created whenever the parser named one
ensure_unit_always_create(st) ==
    LET unit_data == st.parsed.unit
    IN  IF ~unit_data.present THEN ensure_food([st EXCEPT !.unit = NoneRef])
        ELSE [st EXCEPT !.pc = "create_unit"]

\* _ensure_unit, up to its await of create_unit
ensure_unit(st) ==
    LET unit_data == st.parsed.unit
    IN  IF ~unit_data.present THEN ensure_food([st EXCEPT !.unit = NoneRef])
        ELSE IF unit_data.id # 0
             THEN ensure_food([st EXCEPT !.unit = Ref(unit_data.id, unit_data.name)])
        ELSE [st EXCEPT !.pc = "create_unit"]

\* create_recipe, after the fetch: the two _ensure_list calls, then the loop
cr_lists(st) ==
    LET ingredient_list == ensure_list(st.args.ingredients)
        instruction_list == ensure_list(st.args.instructions)
    IN  IF ~ingredient_list.ok THEN Raise(st, ingredient_list.exc)
        ELSE IF ~instruction_list.ok THEN Raise(st, instruction_list.exc)
        ELSE cr_loop([st EXCEPT !.todo = ingredient_list.val,
                                !.instruction_list = instruction_list.val])

\* as ur_fields, but the description is sent back when the caller gave none
ur_fields_resend_description(st) ==
    LET base == [id |-> st.recipe.id,
                 userId |-> st.recipe.userId,
                 householdId |-> st.recipe.householdId,
                 groupId |-> st.recipe.groupId,
                 name |-> IF Truthy(st.args.name) THEN st.args.name.val ELSE st.recipe.name,
                 description |-> IF Truthy(st.args.description)
                                 THEN st.args.description.val ELSE st.recipe.description,
                 slug |-> st.slug]
        st1 == [st EXCEPT !.update_data = base]
    IN  IF Truthy(st.args.ingredients)
        THEN LET ingredient_list == ensure_list(st.args.ingredients)
             IN  IF ~ingredient_list.ok THEN Raise(st1, ingredient_list.exc)
                 ELSE ur_loop([st1 EXCEPT !.todo = ingredient_list.val])
        ELSE ur_finish(st1)

\* update_recipe, after the fetch: update_data, `if description:`, `if ingredients:`
ur_fields(st) ==
    LET base == [id |-> st.recipe.id,
                 userId |-> st.recipe.userId,
                 householdId |-> st.recipe.householdId,
                 groupId |-> st.recipe.groupId,
                 name |-> IF Truthy(st.args.name) THEN st.args.name.val ELSE st.recipe.name,
                 slug |-> st.slug]
        described == (IF Truthy(st.args.description)
                      THEN "description" :> st.args.description.val ELSE EmptyFn) @@ base
        st1 == [st EXCEPT !.update_data = described]
    IN  IF Truthy(st.args.ingredients)
        THEN LET ingredient_list == ensure_list(st.args.ingredients)
             IN  IF ~ingredient_list.ok THEN Raise(st1, ingredient_list.exc)
                 ELSE ur_loop([st1 EXCEPT !.todo = ingredient_list.val])
        ELSE ur_finish(st1)

----------------------------------------------------------------------------
(* create_recipe and update_recipe: the awaits *)

SetInv(i, st) == inv' = [inv EXCEPT ![i] = st]

\* the status a request for a recipe earns
RecipeStatus(slug) == IF slug \in DOMAIN recipes THEN 200 ELSE 404

\* PUT /api/recipes/{slug}: the backend merges the body into the stored recipe
Updated(slug, data) == data @@ recipes[slug]

\* create_recipe: `created = await client.create_recipe(name)`
cr_create(i) ==
    /\ inv[i].pc = "cr_create"
    /\ \E status \in Statuses(201) :
        LET name == inv[i].args.name.val
            st == Called(inv[i], "create_recipe", NoSlug, name, status)
            r == request(status)
            slug == NewSlug(name)
        IN  IF r.ok
            THEN /\ recipes' = (slug :> StubRecipe(nextId, name, slug)) @@ recipes
                 /\ nextId' = nextId + 1
                 /\ SetInv(i, [st EXCEPT !.slug = slug, !.pc = "cr_fetch"])
                 /\ UNCHANGED <<units, foods, mealplans>>
            ELSE /\ SetInv(i, Raise(st, r.exc))
                 /\ UNCHANGED backend

\* create_recipe: `recipe = await client.get_recipe(slug)`
cr_fetch(i) ==
    /\ inv[i].pc = "cr_fetch"
    /\ \E status \in Statuses(RecipeStatus(inv[i].slug)) :
        LET st == Called(inv[i], "get_recipe", inv[i].slug, "", status)
            r == request(status)
        IN  IF r.ok
            THEN SetInv(i, cr_lists([st EXCEPT !.recipe = recipes[st.slug]]))
            ELSE SetInv(i, Raise(st, r.exc))
    /\ UNCHANGED backend

\* create_recipe: `updated = await client.update_recipe(slug, update_data)`
cr_update(i) ==
    /\ inv[i].pc = "cr_update"
    /\ \E status \in Statuses(RecipeStatus(inv[i].slug)) :
        LET st == Called(inv[i], "update_recipe", inv[i].slug, "", status)
            r == request(status)
            updated == Updated(st.slug, st.update_data)
        IN  IF r.ok
            THEN /\ recipes' = [recipes EXCEPT ![st.slug] = updated]
                 /\ SetInv(i, Return(st, Success([slug |-> updated.slug,
                                                  id |-> updated.id,
                                                  name |-> st.args.name.val])))
            ELSE /\ SetInv(i, Raise(st, r.exc))
                 /\ UNCHANGED recipes
    /\ UNCHANGED <<units, foods, mealplans, nextId>>

\* update_recipe: `recipe = await client.get_recipe(slug)`
ur_fetch(i) ==
    /\ inv[i].pc = "ur_fetch"
    /\ \E status \in Statuses(RecipeStatus(inv[i].slug)) :
        LET st == Called(inv[i], "get_recipe", inv[i].slug, "", status)
            r == request(status)
        IN  IF r.ok
            THEN SetInv(i, ur_fields([st EXCEPT !.recipe = recipes[st.slug]]))
            ELSE SetInv(i, Raise(st, r.exc))
    /\ UNCHANGED backend

\* update_recipe: `updated = await client.update_recipe(slug, update_data)`
ur_update(i) ==
    /\ inv[i].pc = "ur_update"
    /\ \E status \in Statuses(RecipeStatus(inv[i].slug)) :
        LET st == Called(inv[i], "update_recipe", inv[i].slug, "", status)
            r == request(status)
            updated == Updated(st.slug, st.update_data)
        IN  IF r.ok
            THEN /\ recipes' = [recipes EXCEPT ![st.slug] = updated]
                 /\ SetInv(i, Return(st, Success([slug |-> updated.slug,
                                                  name |-> updated.name])))
            ELSE /\ SetInv(i, Raise(st, r.exc))
                 /\ UNCHANGED recipes
    /\ UNCHANGED <<units, foods, mealplans, nextId>>

\* _parse_and_prepare_ingredient: `parsed = await client.parse_ingredient(ingredient_text)`
parse_ingredient(i) ==
    /\ inv[i].pc = "parse_ingredient"
    /\ \E status \in Statuses(200) :
        LET st == Called(inv[i], "parse_ingredient", NoSlug, inv[i].text, status)
            r == request(status)
        IN  IF r.ok
            THEN SetInv(i, ensure_unit([st EXCEPT !.parsed = parse_ingredient_response(st.text)]))
            ELSE SetInv(i, Raise(st, r.exc))
    /\ UNCHANGED backend

\* as create_unit, but a unit that is in the catalog by now is used, not created
create_unit_unless_there(i) ==
    /\ inv[i].pc = "create_unit"
    /\ LET name == inv[i].parsed.unit.name
           there == LookupId(units, name)
       IN  IF there # 0
           THEN /\ SetInv(i, ensure_food([inv[i] EXCEPT !.unit = Ref(there, name)]))
                /\ UNCHANGED <<units, nextId>>
           ELSE \E status \in Statuses(201) :
                    LET st == Called(inv[i], "create_unit", NoSlug, name, status)
                        r == request(status)
                    IN  IF r.ok
                        THEN /\ units' = units \cup { [id |-> nextId, name |-> name] }
                             /\ nextId' = nextId + 1
                             /\ SetInv(i, ensure_food([st EXCEPT !.unit = Ref(nextId, name)]))
                        ELSE /\ SetInv(i, Raise(st, r.exc))
                             /\ UNCHANGED <<units, nextId>>
    /\ UNCHANGED <<recipes, foods, mealplans>>

\* _ensure_unit: `result = await client.create_unit(unit_data["name"])`
create_unit(i) ==
    /\ inv[i].pc = "create_unit"
    /\ \E status \in Statuses(201) :
        LET name == inv[i].parsed.unit.name
            st == Called(inv[i], "create_unit", NoSlug, name, status)
            r == request(status)
        IN  IF r.ok
            THEN /\ units' = units \cup { [id |-> nextId, name |-> name] }
                 /\ nextId' = nextId + 1
                 /\ SetInv(i, ensure_food([st EXCEPT !.unit = Ref(nextId, name)]))
            ELSE /\ SetInv(i, Raise(st, r.exc))
                 /\ UNCHANGED <<units, nextId>>
    /\ UNCHANGED <<recipes, foods, mealplans>>

\* _ensure_food: `result = await client.create_food(food_data["name"])`
create_food(i) ==
    /\ inv[i].pc = "create_food"
    /\ \E status \in Statuses(201) :
        LET name == inv[i].parsed.food.name
            st == Called(inv[i], "create_food", NoSlug, name, status)
            r == request(status)
        IN  IF r.ok
            THEN /\ foods' = foods \cup { [id |-> nextId, name |-> name] }
                 /\ nextId' = nextId + 1
                 /\ SetInv(i, prepared(st, Ref(nextId, name)))
            ELSE /\ SetInv(i, Raise(st, r.exc))
                 /\ UNCHANGED <<foods, nextId>>
    /\ UNCHANGED <<recipes, units, mealplans>>

----------------------------------------------------------------------------
(* The tools without a try block *)

\* search_recipes: `result = await client.get_recipes(...)`, then the reduced items
search_recipes(i) ==
    /\ inv[i].pc = "search_recipes"
    /\ \E status \in Statuses(200) :
        LET st == Called(inv[i], "get_recipes", NoSlug, "", status)
            r == request(status)
            items == { [id |-> recipes[s].id, slug |-> s, name |-> recipes[s].name,
                        description |-> recipes[s].description] : s \in DOMAIN recipes }
        IN  IF r.ok
            THEN SetInv(i, Return(st, Success([recipes |-> items, total |-> Cardinality(items)])))
            ELSE SetInv(i, Raise(st, r.exc))
    /\ UNCHANGED backend

\* `ing.get("unit", {}).get("name") if ing.get("unit") else None`
name_or_none(ref) == IF ref.present THEN PyStr(ref.name) ELSE PyNone

\* get_recipe: the flattened recipe it returns
get_recipe_view(recipe) ==
    [id |-> recipe.id,
     slug |-> recipe.slug,
     name |-> recipe.name,
     description |-> recipe.description,
     ingredients |-> [k \in 1..Len(recipe.recipeIngredient) |->
                        [note |-> recipe.recipeIngredient[k].note,
                         quantity |-> recipe.recipeIngredient[k].quantity,
                         unit |-> name_or_none(recipe.recipeIngredient[k].unit),
                         food |-> name_or_none(recipe.recipeIngredient[k].food)]],
     instructions |-> [k \in 1..Len(recipe.recipeInstructions) |->
                        [text |-> recipe.recipeInstructions[k].text]]]

\* get_recipe: `recipe = await client.get_recipe(slug)`
get_recipe(i) ==
    /\ inv[i].pc = "get_recipe"
    /\ \E status \in Statuses(RecipeStatus(inv[i].slug)) :
        LET st == Called(inv[i], "get_recipe", inv[i].slug, "", status)
            r == request(status)
        IN  IF r.ok
            THEN SetInv(i, Return(st, Success(get_recipe_view(recipes[st.slug]))))
            ELSE SetInv(i, Raise(st, r.exc))
    /\ UNCHANGED backend

\* delete_recipe: `await client.delete_recipe(slug)`
delete_recipe(i) ==
    /\ inv[i].pc = "delete_recipe"
    /\ \E status \in Statuses(RecipeStatus(inv[i].slug)) :
        LET st == Called(inv[i], "delete_recipe", inv[i].slug, "", status)
            r == request(status)
        IN  IF r.ok
            THEN /\ recipes' = [s \in DOMAIN recipes \ {st.slug} |-> recipes[s]]
                 /\ SetInv(i, Return(st, Success([slug |-> st.slug])))
            ELSE /\ SetInv(i, Raise(st, r.exc))
                 /\ UNCHANGED recipes
    /\ UNCHANGED <<units, foods, mealplans, nextId>>

\* get_todays_meals: `meals = await client.get_todays_meals()`
get_todays_meals(i) ==
    /\ inv[i].pc = "get_todays_meals"
    /\ \E status \in Statuses(200), today \in Days :
        LET st == Called(inv[i], "get_todays_meals", NoSlug, "", status)
            r == request(status)
        IN  IF r.ok
            THEN SetInv(i, Return(st, Success([date |-> today,
                                               meals |-> { m \in mealplans : m.date = today }])))
            ELSE SetInv(i, Raise(st, r.exc))
    /\ UNCHANGED backend

\* get_meal_plans: `result = await client.get_meal_plans(...)`
get_meal_plans(i) ==
    /\ inv[i].pc = "get_meal_plans"
    /\ \E status \in Statuses(200) :
        LET st == Called(inv[i], "get_meal_plans", NoSlug, "", status)
            r == request(status)
            meals == { m \in mealplans :
                         m.date >= st.params.start_date /\ m.date <= st.params.end_date }
        IN  IF r.ok
            THEN SetInv(i, Return(st, Success([start_date |-> st.params.start_date,
                                               end_date |-> st.params.end_date,
                                               meals |-> meals])))
            ELSE SetInv(i, Raise(st, r.exc))
    /\ UNCHANGED backend

\* create_meal_plan: `recipe = await client.get_recipe(recipe_slug)`
cmp_lookup(i) ==
    /\ inv[i].pc = "cmp_lookup"
    /\ \E status \in Statuses(RecipeStatus(inv[i].slug)) :
        LET st == Called(inv[i], "get_recipe", inv[i].slug, "", status)
            r == request(status)
        IN  IF r.ok
            THEN SetInv(i, [st EXCEPT !.recipe_id = recipes[st.slug].id, !.pc = "cmp_create"])
            ELSE SetInv(i, Raise(st, r.exc))
    /\ UNCHANGED backend

EntryTypes == {"breakfast", "lunch", "dinner", "side"}

\* as meal_plan_data, but the recipe reference is left out
meal_plan_data_without_recipe(date, entry_type, recipe_id, title) ==
    (IF Truthy(title) THEN "title" :> title.val ELSE EmptyFn)
        @@ [date |-> date, entryType |-> entry_type]

\* client.py create_meal_plan: the body it posts
meal_plan_data(date, entry_type, recipe_id, title) ==
    (IF recipe_id # 0 THEN "recipeId" :> recipe_id ELSE EmptyFn)
        @@ (IF Truthy(title) THEN "title" :> title.val ELSE EmptyFn)
        @@ [date |-> date, entryType |-> entry_type]

\* create_meal_plan: `result = await client.create_meal_plan(...)`
cmp_create(i) ==
    /\ inv[i].pc = "cmp_create"
    /\ LET data == meal_plan_data(inv[i].args.meal_date.val, inv[i].args.entry_type,
                                  inv[i].recipe_id, inv[i].args.title)
       IN  \E status \in Statuses(IF data.entryType \in EntryTypes THEN 201 ELSE 422) :
            LET st == Called([inv[i] EXCEPT !.params = data], "create_meal_plan", NoSlug, "", status)
                r == request(status)
            IN  IF r.ok
                THEN /\ mealplans' = mealplans \cup { ("id" :> nextId) @@ data }
                     /\ nextId' = nextId + 1
                     /\ SetInv(i, Return(st, Success([id |-> nextId, date |-> data.date,
                                                      entry_type |-> data.entryType])))
                ELSE /\ SetInv(i, Raise(st, r.exc))
                     /\ UNCHANGED <<mealplans, nextId>>
    /\ UNCHANGED <<recipes, units, foods>>

\* delete_meal_plan: `await client.delete_meal_plan(item_id)`
delete_meal_plan(i) ==
    /\ inv[i].pc = "delete_meal_plan"
    /\ LET hit == { m \in mealplans : m.id = inv[i].args.item_id }
       IN  \E status \in Statuses(IF hit # {} THEN 200 ELSE 404) :
            LET st == Called(inv[i], "delete_meal_plan", NoSlug, "", status)
                r == request(status)
            IN  IF r.ok
                THEN /\ mealplans' = mealplans \ hit
                     /\ SetInv(i, Return(st, Success([id |-> st.args.item_id])))
                ELSE /\ SetInv(i, Raise(st, r.exc))
                     /\ UNCHANGED mealplans
    /\ UNCHANGED <<recipes, units, foods, nextId>>

URL_PNG == "https://img.test/a/pic.png?w=640"
URL_PAGE == "https://img.test/view?id=7"

\* upload_recipe_image: the last path segment without its query, unless its
\* extension is not an image's
image_filename(image_url) ==
    CASE image_url = URL_PNG -> "pic.png"
      [] OTHER -> "recipe_image.png"

\* upload_recipe_image: `response = await http_client.get(image_url, ...)` and
\* `response.raise_for_status()`
img_download(i) ==
    /\ inv[i].pc = "img_download"
    /\ \E status \in Statuses(200) \cup {404} :
        LET st == Called(inv[i], "http_get", NoSlug, inv[i].args.image_url, status)
            r == request_multipart(status)
        IN  IF r.ok
            THEN SetInv(i, [st EXCEPT !.filename = image_filename(st.args.image_url),
                                      !.pc = "img_upload"])
            ELSE SetInv(i, Raise(st, r.exc))
    /\ UNCHANGED backend

\* both upload tools: `await client.upload_recipe_image(slug, image_data, filename)`
img_upload(i) ==
    /\ inv[i].pc = "img_upload"
    /\ \E status \in Statuses(RecipeStatus(inv[i].slug)) :
        LET st == Called(inv[i], "upload_recipe_image", inv[i].slug, inv[i].filename, status)
            r == request_multipart(status)
        IN  IF r.ok
            THEN /\ recipes' = [recipes EXCEPT ![st.slug] = ("image" :> st.filename) @@ @]
                 /\ SetInv(i, Return(st, Success([slug |-> st.slug])))
            ELSE /\ SetInv(i, Raise(st, r.exc))
                 /\ UNCHANGED recipes
    /\ UNCHANGED <<units, foods, mealplans, nextId>>

B64_GOOD == "aGVsbG8="
B64_BAD == "aGVsbG8"

\* base64.b64decode: incorrect padding raises binascii.Error
b64decode(s) ==
    IF s = B64_GOOD THEN Ok("hello") ELSE Raised(BinasciiError)

----------------------------------------------------------------------------
(* Invoking a tool: the function's code up to its first await *)

STEW == <<"stew", 0>>
CHILI == <<"chili", 0>>

CreateRecipeArgs ==
    { [name |-> PyStr("Chili"), description |-> PyStr("Spicy"),
       ingredients |-> ing, instructions |-> ins,
       prep_time |-> t[1], cook_time |-> t[2], servings |-> t[3]] :
        ing \in IngredientArgs, ins \in InstructionArgs, t \in TimingArgs }

\* (name, description, prep_time, cook_time, servings) of an update_recipe
UpdateScalarArgs ==
    { <<PyNone, PyNone, PyNone, PyNone, PyNone>>,
      <<PyNone, PyNone, PyNone, PyNone, PyStr("4 servings")>>,
      <<PyStr("Goulash"), PyNone, PyNone, PyNone, PyNone>>,
      <<PyNone, PyStr("Hot"), PyNone, PyNone, PyNone>>,
      <<PyStr("Goulash"), PyStr("Hot"), PyStr("15 minutes"), PyStr("30 minutes"), PyStr("4 servings")>>,
      <<PyStr(""), PyStr(""), PyStr(""), PyNone, PyNone>> }

UpdateRecipeArgs ==
    { [slug |-> slug, name |-> a[1], description |-> a[2],
       ingredients |-> ing, instructions |-> ins,
       prep_time |-> a[3], cook_time |-> a[4], servings |-> a[5]] :
        slug \in {STEW, CHILI},
        a \in UpdateScalarArgs,
        ing \in {PyNone} \cup IngredientArgs,
        ins \in {PyNone} \cup InstructionArgs }

\* the arguments of the callers that run concurrently
ConcurrentIngredients == { PyList(<<PyStr(FLOUR)>>) }

ConcurrentCreateArgs ==
    { [name |-> PyStr("Chili"), description |-> PyStr("Spicy"),
       ingredients |-> ing, instructions |-> PyList(<<PyStr("Mix")>>),
       prep_time |-> PyNone, cook_time |-> PyNone, servings |-> PyNone] :
        ing \in ConcurrentIngredients }

ConcurrentUpdateArgs ==
    { [slug |-> STEW, name |-> PyNone, description |-> PyNone,
       ingredients |-> ing, instructions |-> PyNone,
       prep_time |-> PyNone, cook_time |-> PyNone, servings |-> PyNone] :
        ing \in ConcurrentIngredients }

MealPlanArgs ==
    { [meal_date |-> PyDate(1), entry_type |-> et, recipe_slug |-> rs, title |-> ti] :
        et \in {"dinner", "brunch"},
        rs \in { PyNone, PyStr(""), PySlug(STEW), PySlug(CHILI) },
        ti \in { PyNone, PyStr("Leftovers") } }

call_create_recipe(i, args) ==
    /\ inv[i].pc = "idle"
    /\ SetInv(i, [Idle EXCEPT !.tool = "create_recipe", !.args = args, !.pc = "cr_create"])
    /\ UNCHANGED backend

call_update_recipe(i, args) ==
    /\ inv[i].pc = "idle"
    /\ SetInv(i, [Idle EXCEPT !.tool = "update_recipe", !.args = args,
                              !.slug = args.slug, !.pc = "ur_fetch"])
    /\ UNCHANGED backend

call_search_recipes(i) ==
    /\ inv[i].pc = "idle"
    /\ SetInv(i, [Idle EXCEPT !.tool = "search_recipes", !.pc = "search_recipes"])
    /\ UNCHANGED backend

call_get_recipe(i, slug) ==
    /\ inv[i].pc = "idle"
    /\ SetInv(i, [Idle EXCEPT !.tool = "get_recipe", !.slug = slug, !.pc = "get_recipe"])
    /\ UNCHANGED backend

call_delete_recipe(i, slug) ==
    /\ inv[i].pc = "idle"
    /\ SetInv(i, [Idle EXCEPT !.tool = "delete_recipe", !.slug = slug, !.pc = "delete_recipe"])
    /\ UNCHANGED backend

call_get_todays_meals(i) ==
    /\ inv[i].pc = "idle"
    /\ SetInv(i, [Idle EXCEPT !.tool = "get_todays_meals", !.pc = "get_todays_meals"])
    /\ UNCHANGED backend

\* get_meal_plans: the two defaults, then the await
call_get_meal_plans(i, start_date, end_date) ==
    /\ inv[i].pc = "idle"
    /\ \E today \in Days :
        LET start == IF ~Truthy(start_date) THEN today ELSE start_date.val
            end == IF ~Truthy(end_date) THEN today + WEEK ELSE end_date.val
        IN  SetInv(i, [Idle EXCEPT !.tool = "get_meal_plans",
                                   !.args = [start_date |-> start_date, end_date |-> end_date,
                                             today |-> today],
                                   !.params = [start_date |-> start, end_date |-> end],
                                   !.pc = "get_meal_plans"])
    /\ UNCHANGED backend

\* create_meal_plan: `if recipe_slug:` decides whether a lookup comes first
call_create_meal_plan(i, args) ==
    /\ inv[i].pc = "idle"
    /\ IF Truthy(args.recipe_slug)
       THEN SetInv(i, [Idle EXCEPT !.tool = "create_meal_plan", !.args = args,
                                   !.slug = args.recipe_slug.val, !.pc = "cmp_lookup"])
       ELSE SetInv(i, [Idle EXCEPT !.tool = "create_meal_plan", !.args = args,
                                   !.pc = "cmp_create"])
    /\ UNCHANGED backend

call_delete_meal_plan(i, item_id) ==
    /\ inv[i].pc = "idle"
    /\ SetInv(i, [Idle EXCEPT !.tool = "delete_meal_plan", !.args = [item_id |-> item_id],
                              !.pc = "delete_meal_plan"])
    /\ UNCHANGED backend

call_upload_recipe_image(i, slug, image_url) ==
    /\ inv[i].pc = "idle"
    /\ SetInv(i, [Idle EXCEPT !.tool = "upload_recipe_image", !.slug = slug,
                              !.args = [image_url |-> image_url], !.pc = "img_download"])
    /\ UNCHANGED backend

\* upload_recipe_image_base64: the decode precedes the await
call_upload_recipe_image_base64(i, slug, image_base64) ==
    /\ inv[i].pc = "idle"
    /\ LET st == [Idle EXCEPT !.tool = "upload_recipe_image_base64", !.slug = slug,
                              !.args = [image_base64 |-> image_base64],
                              !.filename = "recipe.png"]
           image_data == b64decode(image_base64)
       IN  IF image_data.ok
           THEN SetInv(i, [st EXCEPT !.pc = "img_upload"])
           ELSE SetInv(i, Raise(st, image_data.exc))
    /\ UNCHANGED backend

----------------------------------------------------------------------------
(* The system *)

StewRecipe ==
    [id |-> 1, userId |-> "user-1", householdId |-> "household-1", groupId |-> "group-1",
     name |-> "Stew", slug |-> STEW, description |-> "Hearty",
     recipeIngredient |-> << [quantity |-> 1, unit |-> Ref(2, "tsp"), food |-> Ref(3, "salt"),
                              note |-> "", display |-> SALT] >>,
     recipeInstructions |-> << [text |-> "Simmer", ingredientReferences |-> <<>>] >>]

InitUnits == { [id |-> 2, name |-> "tsp"] }
InitFoods == { [id |-> 3, name |-> "salt"] }

Init ==
    /\ inv = [i \in Invocations |-> Idle]
    /\ recipes = (STEW :> StewRecipe)
    /\ units = InitUnits
    /\ foods = InitFoods
    /\ mealplans = { [id |-> 4, date |-> 1, entryType |-> "dinner", recipeId |-> 1] }
    /\ nextId = 5

\* no invocation is under way or was made
Quiet == \A j \in Invocations : inv[j].pc = "idle"

\* the steps of the recipe tools that normalize ingredients
RecipeStep(i) ==
    \/ cr_create(i)
    \/ cr_fetch(i)
    \/ parse_ingredient(i)
    \/ create_unit(i)
    \/ create_food(i)
    \/ cr_update(i)
    \/ ur_fetch(i)
    \/ ur_update(i)

OtherStep(i) ==
    \/ search_recipes(i)
    \/ get_recipe(i)
    \/ delete_recipe(i)
    \/ get_todays_meals(i)
    \/ get_meal_plans(i)
    \/ cmp_lookup(i)
    \/ cmp_create(i)
    \/ delete_meal_plan(i)
    \/ img_download(i)
    \/ img_upload(i)

Invoke(i) ==
    \/ \E args \in CreateRecipeArgs : call_create_recipe(i, args)
    \/ \E args \in UpdateRecipeArgs : call_update_recipe(i, args)
    \/ call_search_recipes(i)
    \/ \E slug \in {STEW, CHILI} : call_get_recipe(i, slug)
    \/ \E slug \in {STEW, CHILI} : call_delete_recipe(i, slug)
    \/ call_get_todays_meals(i)
    \/ \E s \in DateArgs, e \in DateArgs : call_get_meal_plans(i, s, e)
    \/ \E args \in MealPlanArgs : call_create_meal_plan(i, args)
    \/ \E item_id \in {4, 99} : call_delete_meal_plan(i, item_id)
    \/ \E slug \in {STEW, CHILI}, url \in {URL_PNG, URL_PAGE} : call_upload_recipe_image(i, slug, url)
    \/ \E slug \in {STEW, CHILI}, b \in {B64_GOOD, B64_BAD} : call_upload_recipe_image_base64(i, slug, b)

\* one tool invocation at a time, any tool, any argument
Next == \E i \in Invocations : (Quiet /\ Invoke(i)) \/ RecipeStep(i) \/ OtherStep(i)

Spec == Init /\ [][Next]_vars

\* concurrent invocations of the two tools that normalize ingredients
InvokeConcurrent(i) ==
    \/ \E args \in ConcurrentCreateArgs : call_create_recipe(i, args)
    \/ \E args \in ConcurrentUpdateArgs : call_update_recipe(i, args)

NextConcurrent == \E i \in Invocations : InvokeConcurrent(i) \/ RecipeStep(i)

SpecConcurrent == Init /\ [][NextConcurrent]_vars

\* a create_recipe, then a get_recipe of the slug it returned
RoundTripStep(i) ==
    \/ cr_create(i)
    \/ cr_fetch(i)
    \/ parse_ingredient(i)
    \/ create_unit(i)
    \/ create_food(i)
    \/ cr_update(i)
    \/ get_recipe(i)

InvokeRoundTrip(i) ==
    \/ Quiet /\ \E args \in CreateRecipeArgs : call_create_recipe(i, args)
    \/ \E j \in Invocations \ {i} :
        /\ inv[j].tool = "create_recipe"
        /\ inv[j].pc = "done"
        /\ inv[j].result.kind = "success"
        /\ call_get_recipe(i, inv[j].result.data.slug)

NextRoundTrip == \E i \in Invocations : InvokeRoundTrip(i) \/ RoundTripStep(i)

SpecRoundTrip == Init /\ [][NextRoundTrip]_vars

----------------------------------------------------------------------------
(* Vocabulary of the properties *)

Failed(call) == call.status = 0 \/ call.status >= 400
Finished(st) == st.pc \in {"done", "fault"}
Ops(st) == [k \in 1..Len(st.calls) |-> st.calls[k].op]
CallsOf(st, op) == SelectSeq(st.calls, LAMBDA c : c.op = op)
AnyFailed(st) == \E k \in 1..Len(st.calls) : Failed(st.calls[k])

\* C1: every tool ends by returning an envelope, an error envelope when one of
\* its backend calls failed, and never by an exception that leaves the tool.
C1_NeverThrows ==
    \A i \in Invocations :
        Finished(inv[i]) =>
            /\ inv[i].pc = "done"
            /\ inv[i].result.kind \in {"success", "error"}
            /\ AnyFailed(inv[i]) => inv[i].result.kind = "error"

\* C2: a 404 on get_recipe's lookup comes back as an error envelope that
\* carries the status 404.
C2_GetRecipe404 ==
    \A i \in Invocations :
        (/\ inv[i].tool = "get_recipe"
         /\ Len(inv[i].calls) = 1
         /\ inv[i].calls[1].status = 404)
            => /\ inv[i].pc = "done"
               /\ inv[i].result.kind = "error"
               /\ inv[i].result.status = 404

\* the ingredient texts of a caller who passed a list of strings
IsStringList(v) == v.type = "list" /\ \A k \in 1..Len(v.items) : v.items[k].type = "str"
Texts(v) == [k \in 1..Len(v.items) |-> v.items[k].val]

\* C3: a create_recipe of N ingredient strings whose calls all succeed issues
\* them in the order stub create, recipe fetch, then per ingredient in input
\* order one parse followed by its unit / food creations, then one update; the
\* update's ingredient list has N entries, the k-th made from the k-th text.
C3_CallOrder ==
    \A i \in Invocations :
        LET st == inv[i]
            ops == Ops(st)
            n == Len(st.calls)
            parses == CallsOf(st, "parse_ingredient")
            texts == Texts(st.args.ingredients)
            sent == st.update_data.recipeIngredient
        IN  (/\ st.tool = "create_recipe"
             /\ IsStringList(st.args.ingredients)
             /\ st.pc = "done"
             /\ st.result.kind = "success")
                => /\ n >= 3
                   /\ ops[1] = "create_recipe"
                   /\ ops[2] = "get_recipe"
                   /\ ops[n] = "update_recipe"
                   /\ \A k \in 3..(n - 1) :
                        /\ ops[k] \in {"parse_ingredient", "create_unit", "create_food"}
                        /\ ops[k] = "create_unit" => ops[k - 1] = "parse_ingredient"
                        /\ ops[k] = "create_food" => ops[k - 1] \in {"parse_ingredient", "create_unit"}
                   /\ [k \in 1..Len(parses) |-> parses[k].text] = texts
                   /\ Len(sent) = Len(texts)
                   /\ \A k \in 1..Len(texts) :
                        /\ sent[k].display = texts[k]
                        /\ sent[k].note = Parser(texts[k]).note
                        /\ sent[k].quantity = Parser(texts[k]).quantity
                        /\ sent[k].unit.name = Parser(texts[k]).unit
                        /\ sent[k].food.name = Parser(texts[k]).food

\* a create_recipe of two different ingredient strings has succeeded
C3_Witness ==
    \E i \in Invocations :
        /\ inv[i].tool = "create_recipe"
        /\ inv[i].args.ingredients = PyList(<<PyStr(FLOUR), PyStr(SALT)>>)
        /\ inv[i].pc = "done"
        /\ inv[i].result.kind = "success"
        /\ Len(inv[i].calls) = 7

\* C4: a create_recipe whose ingredients are neither a list nor a string ends
\* with an error envelope, and its only calls are the stub creation and the
\* fetch: no parse, no unit or food creation, no update.
C4_NonListIngredients ==
    \A i \in Invocations :
        (/\ inv[i].tool = "create_recipe"
         /\ inv[i].args.ingredients.type \notin {"list", "str"})
            => /\ \A k \in 1..Len(inv[i].calls) :
                    inv[i].calls[k].op \in {"create_recipe", "get_recipe"}
               /\ Len(CallsOf(inv[i], "create_recipe")) <= 1
               /\ Finished(inv[i]) => inv[i].pc = "done" /\ inv[i].result.kind = "error"

\* such a create_recipe has returned its error after the stub was created
C4_Witness ==
    \E i \in Invocations :
        /\ inv[i].tool = "create_recipe"
        /\ inv[i].args.ingredients = PyInt(5)
        /\ inv[i].pc = "done"
        /\ inv[i].result.error = <<"Expected array, got", "int">>
        /\ Ops(inv[i]) = <<"create_recipe", "get_recipe">>
        /\ inv[i].slug \in DOMAIN recipes

\* the update body of an update_recipe has been built and is being, or was, sent
BodySent(st) ==
    \/ st.pc = "ur_update"
    \/ Len(st.calls) > 0 /\ st.calls[Len(st.calls)].op = "update_recipe"

IsNone(v) == v.type = "NoneType"

OnlyServings(args) ==
    /\ ~IsNone(args.servings) /\ Truthy(args.servings)
    /\ IsNone(args.name) /\ IsNone(args.description)
    /\ IsNone(args.ingredients) /\ IsNone(args.instructions)
    /\ IsNone(args.prep_time) /\ IsNone(args.cook_time)

\* the body keys of the fields a caller of update_recipe provided
ProvidedKeys(args) ==
    (IF IsNone(args.name) THEN {} ELSE {"name"})
        \cup (IF IsNone(args.description) THEN {} ELSE {"description"})
        \cup (IF IsNone(args.ingredients) THEN {} ELSE {"recipeIngredient"})
        \cup (IF IsNone(args.instructions) THEN {} ELSE {"recipeInstructions"})
        \cup (IF IsNone(args.prep_time) THEN {} ELSE {"prepTime"})
        \cup (IF IsNone(args.cook_time) THEN {} ELSE {"performTime"})
        \cup (IF IsNone(args.servings) THEN {} ELSE {"recipeYield"})

References == {"id", "userId", "householdId", "groupId", "slug"}

C6_LookupBeforeCreate ==
    \A i \in Invocations :
        LET st == inv[i]
        IN  (st.tool = "create_meal_plan" /\ Truthy(st.args.recipe_slug))
                => /\ Len(st.calls) >= 1 =>
                        /\ st.calls[1].op = "get_recipe"
                        /\ st.calls[1].slug = st.args.recipe_slug.val
                        /\ Failed(st.calls[1]) => Len(st.calls) = 1
                   /\ \A k \in 1..Len(st.calls) :
                        st.calls[k].op = "create_meal_plan"
                            => /\ k = 2
                               /\ ~Failed(st.calls[1])
                               /\ "recipeId" \in DOMAIN st.params
                               /\ st.params.recipeId = recipes[st.calls[1].slug].id
                   /\ (st.pc = "done" /\ st.result.kind = "success")
                        => \E m \in mealplans :
                            /\ m.id = st.result.data.id
                            /\ m.recipeId = recipes[st.calls[1].slug].id

\* a meal plan entry for the stew has been created after its lookup
C6_Witness ==
    \E i \in Invocations :
        /\ inv[i].tool = "create_meal_plan"
        /\ inv[i].args.recipe_slug = PySlug(STEW)
        /\ inv[i].pc = "done"
        /\ inv[i].result.kind = "success"
        /\ Ops(inv[i]) = <<"get_recipe", "create_meal_plan">>
        /\ inv[i].params.recipeId = 1

\* the successful parse calls of an invocation, and the calls since the last one
ParsedOk(st) == SelectSeq(st.calls, LAMBDA c : c.op = "parse_ingredient" /\ ~Failed(c))
LastParse(st) ==
    CHOOSE k \in 1..Len(st.calls) :
        /\ st.calls[k].op = "parse_ingredient" /\ ~Failed(st.calls[k])
        /\ \A j \in (k + 1)..Len(st.calls) :
              st.calls[j].op = "parse_ingredient" => Failed(st.calls[j])
SinceParse(st, op) ==
    SelectSeq(SubSeq(st.calls, LastParse(st) + 1, Len(st.calls)), LAMBDA c : c.op = op)

\* get-or-create of one reference: `data` is what the parser answered, `out`
\* what the ingredient got, `creates` the create calls issued for it
Resolved(data, out, creates, catalog, initial) ==
    IF ~data.present THEN out = NoneRef /\ creates = <<>>
    ELSE IF data.id # 0 THEN out = Ref(data.id, data.name) /\ creates = <<>>
    ELSE /\ Len(creates) = 1
         /\ creates[1].text = data.name
         /\ ~Failed(creates[1])
         /\ out.present /\ out.name = data.name
         /\ [id |-> out.id, name |-> data.name] \in catalog \ initial

\* C7: a unit (a food) the parser answered with an id is used as it is and no
\* create call is issued; one answered without an id is created by exactly one
\* call with the parsed name and the new entity's id is used; one the parser
\* did not answer is left absent and no create call is issued.
C7_GetOrCreate ==
    \A i \in Invocations :
        LET st == inv[i]
            n == Len(st.parsed_ingredients)
        IN  /\ st.pc = "create_unit" =>
                st.parsed.unit.present /\ st.parsed.unit.id = 0
            /\ st.pc = "create_food" =>
                /\ st.parsed.food.present /\ st.parsed.food.id = 0
                /\ Resolved(st.parsed.unit, st.unit, SinceParse(st, "create_unit"),
                            units, InitUnits)
            /\ (n > 0 /\ Len(ParsedOk(st)) = n) =>
                /\ Resolved(st.parsed.unit, st.parsed_ingredients[n].unit,
                            SinceParse(st, "create_unit"), units, InitUnits)
                /\ Resolved(st.parsed.food, st.parsed_ingredients[n].food,
                            SinceParse(st, "create_food"), foods, InitFoods)

\* an update_recipe of twice the same ingredient has created its unit for the
\* first and used the id the parser then answered for the second
C7_Witness ==
    \E i \in Invocations :
        /\ inv[i].tool = "update_recipe"
        /\ inv[i].args.ingredients = PyList(<<PyStr(FLOUR), PyStr(FLOUR)>>)
        /\ Len(inv[i].parsed_ingredients) = 2
        /\ inv[i].parsed.unit.id # 0
        /\ inv[i].parsed_ingredients[2].unit = inv[i].parsed_ingredients[1].unit
        /\ inv[i].parsed_ingredients[1].unit \notin { Ref(u.id, u.name) : u \in InitUnits }
        /\ Len(CallsOf(inv[i], "create_unit")) = 1
        /\ Len(CallsOf(inv[i], "parse_ingredient")) = 2

\* the invocation has prepared the ingredient of its last parse, whose unit the
\* parser had answered without an id
UnitWasMissing(st) ==
    /\ Len(st.parsed_ingredients) > 0
    /\ Len(ParsedOk(st)) = Len(st.parsed_ingredients)
    /\ st.parsed.unit.present
    /\ st.parsed.unit.id = 0

LastUnit(st) == st.parsed_ingredients[Len(st.parsed_ingredients)].unit

\* C8: nothing makes the create-if-missing step atomic: two invocations whose
\* parse calls both answered the same unit name without an id both create it,
\* so each holds an entity of its own and the catalog has the name twice.
C8_EachCallerCreates ==
    \A i, j \in Invocations :
        (/\ i # j
         /\ UnitWasMissing(inv[i])
         /\ UnitWasMissing(inv[j])
         /\ inv[i].parsed.unit.name = inv[j].parsed.unit.name)
            => /\ LastUnit(inv[i]).id # LastUnit(inv[j]).id
               /\ { [id |-> LastUnit(inv[k]).id, name |-> inv[k].parsed.unit.name] : k \in {i, j} }
                    \subseteq units \ InitUnits
               /\ Len(CallsOf(inv[i], "create_unit")) = 1
               /\ Len(CallsOf(inv[j], "create_unit")) = 1

\* two invocations have created the same unit name: the catalog has it twice
C8_Witness ==
    /\ \E u1, u2 \in units : u1.name = u2.name /\ u1.id # u2.id
    /\ \E i, j \in Invocations :
        /\ i # j
        /\ inv[i].tool = "create_recipe" /\ inv[j].tool = "update_recipe"
        /\ UnitWasMissing(inv[i])
        /\ UnitWasMissing(inv[j])
        /\ inv[i].parsed.unit.name = inv[j].parsed.unit.name

\* C9: create_recipe and update_recipe undo nothing: they issue no delete call,
\* and once the stub of a create_recipe, a unit or a food was created it stays
\* in the backend, whatever fails afterwards.
C9_NoCompensation ==
    \A i \in Invocations :
        LET st == inv[i]
        IN  st.tool \in {"create_recipe", "update_recipe"}
                => /\ \A k \in 1..Len(st.calls) :
                        /\ st.calls[k].op \notin {"delete_recipe", "delete_meal_plan"}
                        /\ (st.calls[k].op = "create_unit" /\ ~Failed(st.calls[k]))
                            => \E u \in units \ InitUnits : u.name = st.calls[k].text
                        /\ (st.calls[k].op = "create_food" /\ ~Failed(st.calls[k]))
                            => \E f \in foods \ InitFoods : f.name = st.calls[k].text
                   /\ (/\ st.tool = "create_recipe"
                       /\ Len(st.calls) > 0
                       /\ ~Failed(st.calls[1]))
                        => /\ st.slug \in DOMAIN recipes
                           /\ recipes[st.slug].name = st.args.name.val

\* a create_recipe has returned an error after it created its stub, a unit and
\* a food, and all three are still there
C9_Witness ==
    \E i \in Invocations :
        /\ inv[i].tool = "create_recipe"
        /\ inv[i].pc = "done"
        /\ inv[i].result.kind = "error"
        /\ Ops(inv[i]) = <<"create_recipe", "get_recipe", "parse_ingredient",
                           "create_unit", "create_food", "update_recipe">>
        /\ inv[i].slug \in DOMAIN recipes
        /\ recipes[inv[i].slug].recipeIngredient = <<>>
        /\ \E u \in units : u.name = "cup"
        /\ \E f \in foods : f.name = "flour"

\* C10: a backend call that failed is the last call of its invocation, which
\* has ended: nothing is retried and nothing is called after a failure.
C10_NoRetry ==
    \A i \in Invocations :
        \A k \in 1..Len(inv[i].calls) :
            Failed(inv[i].calls[k]) => k = Len(inv[i].calls) /\ Finished(inv[i])

\* an update_recipe has ended on the failure of its third call
C10_Witness ==
    \E i \in Invocations :
        /\ inv[i].tool = "update_recipe"
        /\ Len(inv[i].calls) = 3
        /\ inv[i].calls[3].op = "create_unit"
        /\ Failed(inv[i].calls[3])
        /\ inv[i].pc = "done"
        /\ inv[i].result.kind = "error"

\* the texts an ingredients list stands for, item by item
Coerced(v) == [k \in 1..Len(v.items) |-> coerce_ingredient(v.items[k]).val]

\* the texts an instructions list stands for
InstructionTexts(v) == [k \in 1..Len(v.items) |-> parse_instruction(v.items[k]).val.text]

\* C11: the body of an update_recipe has recipeIngredient (recipeInstructions)
\* exactly when the caller provided ingredients (instructions); a provided
\* list, the empty one too, is in the body item for item, and once the update
\* succeeded the stored list is that list and nothing of the old one.
C11_ProvidedListsReplace ==
    \A i \in Invocations :
        LET st == inv[i]
            body == st.update_data
        IN  (st.tool = "update_recipe" /\ BodySent(st))
                => /\ ("recipeIngredient" \in DOMAIN body) <=> ~IsNone(st.args.ingredients)
                   /\ ("recipeInstructions" \in DOMAIN body) <=> ~IsNone(st.args.instructions)
                   /\ st.args.ingredients.type = "list"
                        => /\ "recipeIngredient" \in DOMAIN body
                           /\ [k \in 1..Len(body.recipeIngredient) |-> body.recipeIngredient[k].display]
                                = Coerced(st.args.ingredients)
                           /\ (st.pc = "done" /\ st.result.kind = "success")
                                => recipes[st.slug].recipeIngredient = body.recipeIngredient
                   /\ st.args.instructions.type = "list"
                        => /\ "recipeInstructions" \in DOMAIN body
                           /\ [k \in 1..Len(body.recipeInstructions) |-> body.recipeInstructions[k].text]
                                = InstructionTexts(st.args.instructions)
                           /\ (st.pc = "done" /\ st.result.kind = "success")
                                => recipes[st.slug].recipeInstructions = body.recipeInstructions

\* an invocation that was given a list of ingredient items
GivenItems(st) ==
    /\ st.tool \in {"create_recipe", "update_recipe"}
    /\ st.args.ingredients.type = "list"

HasNoteOrText(item) == item.type = "dict" /\ (item.note # "" \/ item.text # "")
NoteElseText(item) == IF item.note # "" THEN item.note ELSE item.text

RejectedByClaim(item) == item.type # "str" /\ ~HasNoteOrText(item)
RejectedByCode(item) == item.type \notin {"str", "dict"}

\* the first item of a list that has a property, 0 when none has
FirstIn(items, P(_)) ==
    LET hits == { k \in 1..Len(items) : P(items[k]) }
    IN  IF hits = {} THEN 0 ELSE CHOOSE k \in hits : \A j \in hits : k <= j

\* the invocation has entered its loop over the items and has ended without a
\* call that failed
LoopEnded(st) ==
    /\ st.tool = "create_recipe" => st.args.instructions.type = "list"
    /\ Len(st.calls) > 0
    /\ Finished(st)
    /\ ~AnyFailed(st)

\* C12, as the claim has it: an object item is parsed as its note, else its
\* text; an object with neither, like any other item that is no string, gets
\* no parse call and ends the tool with an error envelope naming its type.
C12_ObjectWithoutFieldsRejected ==
    \A i \in Invocations :
        LET st == inv[i]
            items == st.args.ingredients.items
            parses == CallsOf(st, "parse_ingredient")
            bad == FirstIn(items, RejectedByClaim)
        IN  GivenItems(st) =>
            /\ Len(parses) <= Len(items)
            /\ \A k \in 1..Len(parses) :
                /\ ~RejectedByClaim(items[k])
                /\ items[k].type = "dict" => parses[k].text = NoteElseText(items[k])
            /\ LoopEnded(st) => Len(parses) = (IF bad = 0 THEN Len(items) ELSE bad - 1)
            /\ (bad # 0 /\ LoopEnded(st))
                => /\ st.pc = "done"
                   /\ st.result.kind = "error"
                   /\ st.result.error = <<"Ingredient must be a string, got", items[bad].type>>

\* C12, amended: an object with neither a note nor a text is parsed as its
\* string form; only an item that is neither a string nor an object gets no
\* parse call and ends the tool with an error envelope naming its type.
C12_ObjectsAlwaysCoerced ==
    \A i \in Invocations :
        LET st == inv[i]
            items == st.args.ingredients.items
            parses == CallsOf(st, "parse_ingredient")
            bad == FirstIn(items, RejectedByCode)
        IN  GivenItems(st) =>
            /\ Len(parses) <= Len(items)
            /\ \A k \in 1..Len(parses) :
                /\ ~RejectedByCode(items[k])
                /\ parses[k].text =
                        IF items[k].type = "str" THEN items[k].val
                        ELSE IF HasNoteOrText(items[k]) THEN NoteElseText(items[k])
                        ELSE STR_OF_DICT
            /\ LoopEnded(st) => Len(parses) = (IF bad = 0 THEN Len(items) ELSE bad - 1)
            /\ (bad # 0 /\ LoopEnded(st))
                => /\ st.pc = "done"
                   /\ st.result.kind = "error"
                   /\ st.result.error = <<"Ingredient must be a string, got", items[bad].type>>
                   /\ "update_recipe" \notin { st.calls[k].op : k \in 1..Len(st.calls) }

\* an update_recipe has parsed an object without note and text as its string
\* form, and has then returned the error for a number
C12_Witness ==
    \E i \in Invocations :
        /\ inv[i].tool = "update_recipe"
        /\ inv[i].args.ingredients = PyList(<<PyDict("", ""), PyInt(5)>>)
        /\ inv[i].pc = "done"
        /\ inv[i].result.error = <<"Ingredient must be a string, got", "int">>
        /\ Len(inv[i].calls) = 2
        /\ inv[i].calls[2].op = "parse_ingredient"
        /\ inv[i].calls[2].text = STR_OF_DICT
        /\ inv[i].calls[2].status = 200

\* invocation j is a create_recipe that succeeded and invocation i a get_recipe
\* of the slug it returned that succeeded too
RoundTrip(j, i) ==
    /\ inv[j].tool = "create_recipe"
    /\ inv[j].pc = "done"
    /\ inv[j].result.kind = "success"
    /\ IsStringList(inv[j].args.ingredients)
    /\ IsStringList(inv[j].args.instructions)
    /\ inv[i].tool = "get_recipe"
    /\ inv[i].slug = inv[j].result.data.slug
    /\ inv[i].pc = "done"
    /\ inv[i].result.kind = "success"

\* C13: get_recipe after create_recipe gives back the name and the description
\* that were submitted, one ingredient per submitted text in the same order
\* with that text as its note, and the submitted instruction texts in order.
C13_RoundTrip ==
    \A i, j \in Invocations :
        RoundTrip(j, i) =>
            LET args == inv[j].args
                view == inv[i].result.data
            IN  /\ view.name = args.name.val
                /\ view.description = args.description.val
                /\ [k \in 1..Len(view.ingredients) |-> view.ingredients[k].note]
                        = Texts(args.ingredients)
                /\ [k \in 1..Len(view.instructions) |-> view.instructions[k].text]
                        = Texts(args.instructions)

\* C14: when get_meal_plans is given no end date, the range it queries ends a
\* week after the start date in effect, so it never ends before it starts.
C14_EndDefaultsFromStart ==
    \A i \in Invocations :
        (inv[i].tool = "get_meal_plans" /\ ~Truthy(inv[i].args.end_date))
            => /\ inv[i].params.end_date = inv[i].params.start_date + WEEK
               /\ inv[i].params.start_date <= inv[i].params.end_date

\* the unit and the food of a prepared ingredient are in the catalogs
InCatalogs(ingredient) ==
    /\ ingredient.unit.present
        => [id |-> ingredient.unit.id, name |-> ingredient.unit.name] \in units
    /\ ingredient.food.present
        => [id |-> ingredient.food.id, name |-> ingredient.food.name] \in foods

Malformed(inst) == inst.type # "str" /\ ~(inst.type = "dict" /\ inst.text # "")

\* C15: create_recipe validates as it goes. Its error for the item at position
\* k comes after the k items before it were parsed and their units and foods
\* were created; its error for a malformed instruction comes after all its
\* ingredients were parsed and resolved. Neither is followed by an update.
C15_ValidationInterleaved ==
    \A i \in Invocations :
        LET st == inv[i]
            items == st.args.ingredients.items
            steps == st.args.instructions.items
            parses == CallsOf(st, "parse_ingredient")
            bad == FirstIn(items, RejectedByCode)
            badStep == FirstIn(steps, Malformed)
            resolved == /\ \A k \in 1..Len(parses) : ~Failed(parses[k])
                        /\ [k \in 1..Len(parses) |-> parses[k].text]
                                = [k \in 1..Len(parses) |-> coerce_ingredient(items[k]).val]
                        /\ Len(st.parsed_ingredients) = Len(parses)
                        /\ \A k \in 1..Len(parses) :
                            /\ st.parsed_ingredients[k].display = parses[k].text
                            /\ st.parsed_ingredients[k].unit.name = Parser(parses[k].text).unit
                            /\ st.parsed_ingredients[k].food.name = Parser(parses[k].text).food
                            /\ InCatalogs(st.parsed_ingredients[k])
                        /\ Len(CallsOf(st, "update_recipe")) = 0
                        /\ st.slug \in DOMAIN recipes
                        /\ recipes[st.slug].recipeIngredient = <<>>
        IN  (/\ st.tool = "create_recipe"
             /\ st.args.ingredients.type = "list"
             /\ st.args.instructions.type = "list"
             /\ LoopEnded(st))
                => /\ bad # 0
                        => /\ st.result.error = <<"Ingredient must be a string, got", items[bad].type>>
                           /\ Len(parses) = bad - 1
                           /\ resolved
                   /\ (bad = 0 /\ badStep # 0)
                        => /\ st.result.kind = "error"
                           /\ st.result.error[1] = "Instruction must be a string or object with 'text' field, got"
                           /\ Len(parses) = Len(items)
                           /\ resolved

\* a create_recipe has returned the error for its second ingredient after it
\* parsed the first and created its unit and its food
C15_Witness ==
    \E i \in Invocations :
        /\ inv[i].tool = "create_recipe"
        /\ inv[i].args.ingredients = PyList(<<PyStr(FLOUR), PyInt(5)>>)
        /\ inv[i].args.instructions.type = "list"
        /\ inv[i].pc = "done"
        /\ inv[i].result.error = <<"Ingredient must be a string, got", "int">>
        /\ Ops(inv[i]) = <<"create_recipe", "get_recipe", "parse_ingredient",
                           "create_unit", "create_food">>
        /\ \E u \in units \ InitUnits : u.name = "cup"
        /\ \E f \in foods \ InitFoods : f.name = "flour"

====
